---- MODULE Spec2Model ----
(***************************************************************************)
(* Event based risk calculator of the OpenQuake engine                     *)
(* (openquake/engine/calculators/risk/event_based/core.py).                *)
(*                                                                         *)
(* Losses are modelled as natural numbers (exact loss units): a loss is    *)
(* never negative.  A collections.Counter is a function from a finite set  *)
(* of rupture ids to integers; a missing key reads as 0.                   *)
(***************************************************************************)
EXTENDS Integers, Sequences, FiniteSets, TLC

VARIABLES
    event_loss_tables,  \* EventBasedRiskCalculator.event_loss_tables (defaultdict of Counter)
    completed,          \* the task results handed to task_completed so far, in order
    failed,             \* task_completed raised (KeyError): the calculation is aborted
    params,             \* calculator_parameters (CalcParams)
    in_flight,          \* results of event_based tasks not yet given to task_completed
    ntasks,             \* event_based tasks run so far
    expected,           \* per loss type and rupture, the sum of all the units' contributions
    post,               \* what post_process created: "done", event_loss_data, aggregate_curves
    calls,              \* concurrent calls of task_completed: result, position, value read
    bins,               \* one iteration of disaggregate_site: its input and its bin keys
    disaggregated,      \* one call of disaggregate: its input and what it returned
    restored            \* one call of safe_restore: its arguments, position, buffer, copies

vars == <<event_loss_tables, completed, failed, params, in_flight, ntasks,
          expected, post, calls, bins, disaggregated, restored>>

\* ------------------------------------------------------------------ bounds
MaxTasks == 2       \* task results merged in one run
MaxLoss == 1        \* largest loss value of one entry of a partial table
MaxRuns == 2        \* event_based tasks run by one calculation
MaxCalls == 2       \* concurrent calls of task_completed
MaxAssets == 2      \* assets of the outputs given to disaggregate
MaxCols == 2        \* columns of a loss matrix, and rupture ids of a call of disaggregate
MaxLines == 3       \* lines of a short file given to safe_restore

\* ------------------------------------------------------------- the domain
Ruptures == {1, 2, 3}                       \* SESRupture ids
MergeRuptures == {1, 2}                     \* the ruptures of the partial tables of SpecMerge
HazardOutputs == <<1, 2>>                   \* self.rc.hazard_outputs(), by id
LossValues == 0..MaxLoss
LossTypeOrder == <<"structural", "contents">>   \* models.loss_types(self.risk_models)
LossTypes == {LossTypeOrder[i] : i \in 1..Len(LossTypeOrder)}

\* ---------------------------------------------------- collections.Counter
EmptyCounter == [r \in {} |-> 0]

\* Counter.__missing__: a key that is absent reads as 0
Get(c, r) == IF r \in DOMAIN c THEN c[r] ELSE 0

\* a mutation of CounterAdd: the right operand overrides (dict.update)
CounterAddOverwrite(a, b) ==
    [r \in (DOMAIN a) \cup (DOMAIN b) |-> IF r \in DOMAIN b THEN b[r] ELSE a[r]]

\* `counter += other` of Python 2 (Counter.__add__): key-wise sum, and only
\* the keys whose sum is positive are kept
CounterAdd(a, b) ==
    LET keep == {r \in DOMAIN a : a[r] + Get(b, r) > 0}
                \cup {r \in (DOMAIN b) \ (DOMAIN a) : b[r] > 0}
    IN  [r \in keep |-> Get(a, r) + Get(b, r)]

\* defaultdict(Counter).__getitem__ as read by `+=`
TableOf(tables, lt) == IF lt \in DOMAIN tables THEN tables[lt] ELSE EmptyCounter

\* ------------------------------------------------------- task_completed
\* the loop of task_completed from the i-th loss type on: the result's entry
\* is read first (KeyError when it is missing), then merged with +=
RECURSIVE TaskCompletedFrom(_, _, _)
TaskCompletedFrom(tables, result, i) ==
    IF i > Len(LossTypeOrder) THEN [tables |-> tables, raised |-> FALSE]
    ELSE LET lt == LossTypeOrder[i]
         IN  IF lt \notin DOMAIN result
             THEN [tables |-> tables, raised |-> TRUE]
             ELSE TaskCompletedFrom(
                      [l \in (DOMAIN tables) \cup {lt} |->
                          IF l = lt THEN CounterAdd(TableOf(tables, lt), result[lt])
                          ELSE tables[l]],
                      result, i + 1)

task_completed(tables, result) == TaskCompletedFrom(tables, result, 1)

\* ------------------------------------------------ the inputs of the merge
\* partial event loss tables of one task: at most one rupture each
PartialTables ==
    {EmptyCounter} \cup {[r \in {k} |-> v] : k \in MergeRuptures, v \in LossValues}

\* what event_based may return: a dict over some of the loss types
TaskResults ==
    UNION {[S -> PartialTables] : S \in SUBSET LossTypes}

\* ------------------------------------------------------------ the merges
NoTables == [lt \in {} |-> EmptyCounter]
NoPost == [done |-> FALSE, event_loss_data |-> <<>>, aggregate_curves |-> <<>>]
NoExpected == [lt \in LossTypes |-> [r \in Ruptures |-> 0]]
NoParams == [conditional_loss_poes |-> <<>>, quantiles |-> <<>>,
             insured_losses |-> FALSE, sites_disagg |-> FALSE]

\* the calculator after __init__, before any task
CalculatorStart ==
    /\ event_loss_tables = NoTables
    /\ completed = <<>>
    /\ failed = FALSE
    /\ in_flight = <<>>
    /\ ntasks = 0
    /\ expected = NoExpected
    /\ post = NoPost

InitMerge ==
    /\ CalculatorStart
    /\ restored = <<>>
    /\ params = NoParams
    /\ calls = <<>> /\ bins = <<>> /\ disaggregated = <<>>

TaskCompleted(result) ==
    /\ ~failed
    /\ Len(completed) < MaxTasks
    /\ LET out == task_completed(event_loss_tables, result)
       IN  /\ event_loss_tables' = out.tables
           /\ failed' = out.raised
    /\ completed' = Append(completed, result)
    /\ UNCHANGED <<params, in_flight, ntasks, expected, post, calls, bins, disaggregated, restored>>

NextMerge == \E result \in TaskResults : TaskCompleted(result)

SpecMerge == InitMerge /\ [][NextMerge]_vars

\* replaying a sequence of task results from the empty calculator
RECURSIVE Replay(_, _)
Replay(tables, results) ==
    IF results = <<>> THEN tables
    ELSE Replay(task_completed(tables, Head(results)).tables, Tail(results))

Permutations_(n) == {p \in [1..n -> 1..n] : \A i, j \in 1..n : p[i] = p[j] => i = j}

\* C1: merging the same task results in any order gives the same accumulated
\* event loss tables: every permutation of the results merged so far (all of
\* them merged without error) replays to the current tables.
C1_Commutative ==
    ~failed =>
        \A p \in Permutations_(Len(completed)) :
            Replay(NoTables, [i \in 1..Len(completed) |-> completed[p[i]]])
                = event_loss_tables

\* two results with a common rupture key have been merged
C1_Witness ==
    /\ ~failed
    /\ Len(completed) = 2
    /\ completed[1] # completed[2]
    /\ \E lt \in LossTypes, r \in Ruptures :
          /\ r \in DOMAIN completed[1][lt] /\ r \in DOMAIN completed[2][lt]
          /\ completed[1][lt][r] > 0 /\ completed[2][lt][r] > 0
          /\ event_loss_tables[lt][r] = completed[1][lt][r] + completed[2][lt][r]

\* ======================================================== the event_based task
\* SESRupture ids of the logic-tree realization of a hazard output, in the
\* order the query of post_process returns them
RuptureIdsOf(h) == IF h = 1 THEN <<2, 1>> ELSE <<3>>

Range(seq) == {seq[i] : i \in 1..Len(seq)}

RECURSIVE Concat(_)
Concat(seqs) == IF seqs = <<>> THEN <<>> ELSE Head(seqs) \o Concat(Tail(seqs))

\* one call of containers.write
Write(output_type, loss_type, hid) ==
    [output_type |-> output_type, loss_type |-> loss_type, hazard_output_id |-> hid,
     statistics |-> "", poe |-> 0, quantile |-> 0, insured |-> FALSE, variable |-> "",
     item |-> 0]

\* containers.write_all(arg, values, items, ...): one write per pair of
\* zip(values, items), tagged with the value and carrying the i-th item; n is
\* len(items)
write_all(arg, values, n, base) ==
    [i \in 1..(IF Len(values) < n THEN Len(values) ELSE n) |->
        IF arg = "poe" THEN [base EXCEPT !.poe = values[i], !.item = i]
        ELSE [base EXCEPT !.quantile = values[i], !.item = i]]

\* the workflow computes one loss map per conditional loss PoE, one quantile
\* curve per quantile, and insured curves only when insured losses are asked
NumLossMaps(par) == Len(par.conditional_loss_poes)
NumQuantileCurves(par) == Len(par.quantiles)
HasInsuredCurves(par) == par.insured_losses

\* a mutation of save_individual_outputs: a loss map is written for a default
\* PoE when none is configured
save_individual_outputs_default_map(loss_type, out, disagg, par) ==
    LET base == Write("event_loss_curve", loss_type, out.hid)
        lmap == Write("loss_map", loss_type, out.hid)
        poes == IF par.conditional_loss_poes = <<>> THEN <<1>>
                ELSE par.conditional_loss_poes
    IN  <<base>> \o write_all("poe", poes, Len(poes), lmap)

save_individual_outputs(loss_type, out, disagg, par) ==
    LET base == Write("event_loss_curve", loss_type, out.hid)
        lmap == Write("loss_map", loss_type, out.hid)
        frac == Write("loss_fraction", loss_type, out.hid)
    IN  <<base>>
        \o write_all("poe", par.conditional_loss_poes, NumLossMaps(par), lmap)
        \o (IF disagg
            THEN << [frac EXCEPT !.variable = "magnitude_distance"],
                    [frac EXCEPT !.variable = "coordinate"] >>
            ELSE <<>>)
        \o (IF HasInsuredCurves(par) THEN << [base EXCEPT !.insured = TRUE] >> ELSE <<>>)

save_statistical_output(loss_type, par) ==
    LET curve == [Write("loss_curve", loss_type, 0) EXCEPT !.statistics = "mean"]
        lmap == [Write("loss_map", loss_type, 0) EXCEPT !.statistics = "mean"]
        qcurve == [curve EXCEPT !.statistics = "quantile"]
        qmap == [lmap EXCEPT !.statistics = "quantile"]
    IN  <<curve>>
        \o write_all("poe", par.conditional_loss_poes, NumLossMaps(par), lmap)
        \o write_all("quantile", par.quantiles, NumQuantileCurves(par), qcurve)
        \o Concat([i \in 1..Len(par.quantiles) |->
                     write_all("poe", par.conditional_loss_poes, NumLossMaps(par),
                               [qmap EXCEPT !.quantile = par.quantiles[i]])])
        \o (IF HasInsuredCurves(par)
            THEN << [curve EXCEPT !.insured = TRUE] >>
                 \o write_all("quantile", par.quantiles, NumQuantileCurves(par),
                              [qcurve EXCEPT !.insured = TRUE])
            ELSE <<>>)

\* sum(tables, Counter()) of a sequence of event loss tables
RECURSIVE SumTables(_)
SumTables(tables) ==
    IF tables = <<>> THEN EmptyCounter
    ELSE CounterAdd(SumTables(SubSeq(tables, 1, Len(tables) - 1)), tables[Len(tables)])

\* the statistics of a unit: none for fewer than two realizations, else the
\* statistical output, whose event loss table sums those of the outputs
StatsOf(outputs) ==
    IF Len(outputs) < 2 THEN [none |-> TRUE, event_loss_table |-> EmptyCounter]
    ELSE [none |-> FALSE,
          event_loss_table |->
              SumTables([i \in 1..Len(outputs) |-> outputs[i].event_loss_table])]

\* a mutation of do_event_based: the statistics are saved even without outputs
do_event_based_always_saves(unit, par) ==
    [table |-> IF unit.outputs = <<>> THEN EmptyCounter
               ELSE unit.outputs[1].event_loss_table,
     writes |-> save_statistical_output(unit.loss_type, par)]

\* do_event_based: the event loss table the unit returns and the writes it
\* issues to the output containers
do_event_based(unit, par) ==
    LET outputs == unit.outputs
        stats == StatsOf(outputs)
    IN  IF Len(outputs) = 0
        THEN [table |-> EmptyCounter, writes |-> <<>>]
        ELSE [table |-> IF ~stats.none THEN stats.event_loss_table
                        ELSE outputs[1].event_loss_table,
              writes |->
                  Concat([i \in 1..Len(outputs) |->
                             save_individual_outputs(unit.loss_type, outputs[i],
                                                     par.sites_disagg, par)])
                  \o (IF ~stats.none
                      THEN save_statistical_output(unit.loss_type, par)
                      ELSE <<>>)]

\* event_based: the loop over the units, each result stored under the unit's
\* loss type
RECURSIVE EventBasedFrom(_, _, _, _)
EventBasedFrom(units, par, i, acc) ==
    IF i > Len(units) THEN acc
    ELSE LET unit == units[i]
             out == do_event_based(unit, par)
         IN  EventBasedFrom(units, par, i + 1,
                 [tables |-> [l \in (DOMAIN acc.tables) \cup {unit.loss_type} |->
                                 IF l = unit.loss_type THEN out.table ELSE acc.tables[l]],
                  writes |-> acc.writes \o out.writes])

event_based(units, par) ==
    EventBasedFrom(units, par, 1, [tables |-> NoTables, writes |-> <<>>])

\* ------------------------------------------------- the inputs of the tasks
\* the output of a unit for hazard output h: its event loss table holds the
\* loss v of rupture k
Out(h, k, v) == [hid |-> h, event_loss_table |-> [r \in {k} |-> v]]

\* what a unit yields, one output per hazard output it has data for: nothing,
\* a zero loss, a loss, and outputs of two realizations
UnitOutputs ==
    { <<>>,
      <<Out(1, 2, 0)>>,
      <<Out(1, 2, MaxLoss)>>,
      <<Out(1, 2, MaxLoss), Out(2, 3, 0)>>,
      <<Out(1, 1, MaxLoss), Out(2, 3, MaxLoss)>> }

Units == [loss_type : LossTypes, outputs : UnitOutputs]

\* the units of one task: one unit, two units of different loss types, or
\* three units of which the first two are of the first loss type
TaskUnits ==
    {<<u>> : u \in Units}
    \cup {t \in Units \X Units : t[1].loss_type # t[2].loss_type}
    \cup {t \in Units \X Units \X Units :
              /\ t[1].loss_type = LossTypeOrder[1] /\ t[2].loss_type = LossTypeOrder[1]
              /\ t[3].loss_type = LossTypeOrder[2]}

ParamsChoices ==
    { NoParams,
      [conditional_loss_poes |-> <<1>>, quantiles |-> <<>>,
       insured_losses |-> FALSE, sites_disagg |-> TRUE],
      [conditional_loss_poes |-> <<1, 2>>, quantiles |-> <<1>>,
       insured_losses |-> TRUE, sites_disagg |-> TRUE] }

\* the contribution of a task to the loss of rupture r for loss type lt
RECURSIVE Contribution(_, _, _)
Contribution(units, lt, r) ==
    IF units = <<>> THEN 0
    ELSE LET u == Head(units)
             own == IF u.loss_type # lt THEN 0
                    ELSE Get(SumTables([i \in 1..Len(u.outputs) |->
                                           u.outputs[i].event_loss_table]), r)
         IN  own + Contribution(Tail(units), lt, r)

\* ------------------------------------------------------------ the pipeline
Init ==
    /\ CalculatorStart
    /\ restored = <<>>
    /\ params \in ParamsChoices
    /\ calls = <<>> /\ bins = <<>> /\ disaggregated = <<>>

\* a worker runs the event_based task on its units
EventBased(units) ==
    /\ ~failed /\ ~post.done
    /\ ntasks < MaxRuns
    /\ in_flight = <<>>
    /\ LET out == event_based(units, params)
       IN  in_flight' = <<[units |-> units, result |-> out.tables, writes |-> out.writes]>>
    /\ ntasks' = ntasks + 1
    /\ expected' = [lt \in LossTypes |-> [r \in Ruptures |->
                        expected[lt][r] + Contribution(units, lt, r)]]
    /\ UNCHANGED <<event_loss_tables, completed, failed, params, post, calls, bins, disaggregated, restored>>

\* the calculator receives the result of a task
TaskResultArrives ==
    /\ ~failed /\ ~post.done
    /\ in_flight # <<>>
    /\ LET out == task_completed(event_loss_tables, Head(in_flight).result)
       IN  /\ event_loss_tables' = out.tables
           /\ failed' = out.raised
    /\ in_flight' = Tail(in_flight)
    /\ UNCHANGED <<completed, params, ntasks, expected, post, calls, bins, disaggregated, restored>>

\* a mutation of AggregateLosses: the table is not restricted to the
\* realization, every rupture of the calculation that is a key contributes
AggregateLossesAllRuptures(table, h) ==
    LET all == <<2, 1, 3>>
        present == SelectSeq(all, LAMBDA rid : rid \in DOMAIN table)
    IN  [i \in 1..Len(present) |-> table[present[i]]]

\* the aggregate losses of post_process for one event loss table and one
\* hazard output: the table's values at the rupture ids that are keys of it
AggregateLosses(table, h) ==
    LET present == SelectSeq(RuptureIdsOf(h), LAMBDA rid : rid \in DOMAIN table)
    IN  [i \in 1..Len(present) |-> table[present[i]]]

\* the EventLossData rows inserted for one table and one hazard output
EventLossRows(table, h) ==
    LET present == SelectSeq(RuptureIdsOf(h), LAMBDA rid : rid \in DOMAIN table)
    IN  [i \in 1..Len(present) |-> <<present[i], table[present[i]]>>]

\* a mutation of CurveCreated: the curve is built whatever the list holds
CurveCreatedAlways(aggregate_losses) == TRUE

\* `if aggregate_losses:` an aggregate loss curve is created for a list that
\* is not empty
CurveCreated(aggregate_losses) == aggregate_losses # <<>>

\* post_process over every (loss type, hazard output) pair
post_process(tables) ==
    LET pairs == {<<lt, HazardOutputs[i]>> : lt \in DOMAIN tables,
                                            i \in 1..Len(HazardOutputs)}
        curves == {pr \in pairs : CurveCreated(AggregateLosses(tables[pr[1]], pr[2]))}
    IN  [done |-> TRUE,
         event_loss_data |-> [pr \in pairs |-> EventLossRows(tables[pr[1]], pr[2])],
         aggregate_curves |-> [pr \in curves |-> AggregateLosses(tables[pr[1]], pr[2])]]

\* the calculation post-processes once every task result has been merged
PostProcess ==
    /\ ~failed /\ ~post.done
    /\ in_flight = <<>>
    /\ post' = post_process(event_loss_tables)
    /\ UNCHANGED <<event_loss_tables, completed, failed, params, in_flight, ntasks,
                   expected, calls, bins, disaggregated, restored>>

Next ==
    \/ \E units \in TaskUnits : EventBased(units)
    \/ TaskResultArrives
    \/ PostProcess

Spec == Init /\ [][Next]_vars

\* the accumulated tables before the last call of task_completed
BeforeLast == Replay(NoTables, SubSeq(completed, 1, Len(completed) - 1))

\* C2: once every task has run and its result has been merged, the accumulated
\* value of every loss type at every rupture is the sum of the contributions of
\* every unit of that loss type of every task and every realization output.
C2_TotalIsSum ==
    (in_flight = <<>> /\ ~failed) =>
        \A lt \in LossTypes, r \in Ruptures :
            Get(TableOf(event_loss_tables, lt), r) = expected[lt][r]

\* C4: a call of task_completed that raises leaves event_loss_tables as they
\* were before the call, for every loss type.
C4_FailAtomic ==
    [][(~failed /\ failed') =>
          \A lt \in LossTypes :
              TableOf(event_loss_tables', lt) = TableOf(event_loss_tables, lt)]_vars

\* C5: the key set of every accumulated table is the union of the key sets of
\* the partial tables merged into it, so a rupture merged with a loss of zero
\* stays a key.
C5_KeysUnion ==
    ~failed =>
        \A lt \in LossTypes :
            DOMAIN TableOf(event_loss_tables, lt)
                = UNION {DOMAIN completed[i][lt] : i \in 1..Len(completed)}

\* C6: post_process creates an aggregate loss curve for a (loss type, hazard
\* output) pair exactly when a rupture id of the realization is a key of the
\* event loss table of the loss type, and for no other pair.
C6_CurveIffRupturePresent ==
    post.done =>
        \A lt \in LossTypes, i \in 1..Len(HazardOutputs) :
            LET h == HazardOutputs[i]
            IN  (<<lt, h>> \in DOMAIN post.aggregate_curves)
                <=> (/\ lt \in DOMAIN event_loss_tables
                     /\ \E rid \in Range(RuptureIdsOf(h)) :
                           rid \in DOMAIN event_loss_tables[lt])

\* post_process ran on a table that holds ruptures of one realization only:
\* a curve for that realization, none for the other, whose rows are empty
C6_Witness ==
    /\ post.done
    /\ \E lt \in LossTypes :
          /\ <<lt, 1>> \in DOMAIN post.aggregate_curves
          /\ <<lt, 2>> \notin DOMAIN post.aggregate_curves
          /\ <<lt, 2>> \in DOMAIN post.event_loss_data
          /\ post.event_loss_data[<<lt, 2>>] = <<>>

\* the units of loss type lt of a task
UnitsOfType(units, lt) == SelectSeq(units, LAMBDA u : u.loss_type = lt)

\* the units of a task that decide its result for loss type lt all yield zero
\* outputs
YieldsNothing(units, lt) ==
    LET us == UnitsOfType(units, lt)
    IN  us # <<>> /\ \A i \in 1..Len(us) : us[i].outputs = <<>>

\* what C10 asks of a task result in flight
SilentInFlight(m) ==
    \A lt \in LossTypes :
        YieldsNothing(m.units, lt) =>
            /\ m.result[lt] = EmptyCounter
            /\ \A j \in 1..Len(m.writes) : m.writes[j].loss_type # lt

\* C10: units that yield zero outputs return an empty Counter and issue no
\* write to the output containers, and merging that empty result leaves the
\* accumulated event loss table of the loss type as it was.
C10_EmptyUnitIsSilent ==
    [][in_flight # <<>> =>
          /\ SilentInFlight(Head(in_flight))
          /\ \A lt \in LossTypes :
                (YieldsNothing(Head(in_flight).units, lt) /\ lt \in DOMAIN event_loss_tables')
                    => event_loss_tables'[lt] = TableOf(event_loss_tables, lt)]_vars

\* the result of a task whose units all yielded zero outputs is about to be
\* merged into tables that already hold losses
C10_Witness ==
    /\ ~failed
    /\ in_flight # <<>>
    /\ \A lt \in LossTypes : YieldsNothing(Head(in_flight).units, lt)
    /\ Head(in_flight).writes = <<>>
    /\ \A lt \in LossTypes : TableOf(event_loss_tables, lt) # EmptyCounter

\* ---------------------------------------------------- loss map writes
\* the realization outputs of a task for loss type lt and hazard output h, in
\* the order the units and their outputs are saved
RECURSIVE OutputsFor(_, _, _)
OutputsFor(units, lt, h) ==
    IF units = <<>> THEN <<>>
    ELSE (IF Head(units).loss_type = lt
          THEN SelectSeq(Head(units).outputs, LAMBDA o : o.hid = h)
          ELSE <<>>)
         \o OutputsFor(Tail(units), lt, h)

\* the individual loss map writes of a task for loss type lt and hazard output h
IndividualMaps(m, lt, h) ==
    SelectSeq(m.writes, LAMBDA w : /\ w.output_type = "loss_map" /\ w.statistics = ""
                                   /\ w.loss_type = lt /\ w.hazard_output_id = h)

\* C11: a loss map is written only when conditional loss PoEs are configured:
\* without PoEs a task writes no loss map, individual, mean or quantile, and
\* with k PoEs every realization output gets exactly k loss map writes, the
\* i-th carrying the i-th map and the i-th PoE.
C11_LossMapsIffPoes ==
    in_flight # <<>> =>
        LET m == Head(in_flight)
            poes == params.conditional_loss_poes
            k == Len(poes)
        IN  /\ k = 0 => \A i \in 1..Len(m.writes) : m.writes[i].output_type # "loss_map"
            /\ \A lt \in LossTypes, h \in Range(HazardOutputs) :
                  LET maps == IndividualMaps(m, lt, h)
                      n == Len(OutputsFor(m.units, lt, h))
                  IN  /\ Len(maps) = n * k
                      /\ \A j \in 1..Len(maps) :
                            /\ maps[j].item = ((j - 1) % k) + 1
                            /\ maps[j].poe = poes[maps[j].item]

\* two PoEs are configured and a unit of two realizations has written its
\* individual, mean and quantile loss maps
C11_Witness ==
    /\ in_flight # <<>>
    /\ Len(params.conditional_loss_poes) = 2
    /\ \E lt \in LossTypes :
          /\ Len(IndividualMaps(Head(in_flight), lt, 1)) = 2
          /\ Len(IndividualMaps(Head(in_flight), lt, 2)) = 2
          /\ \E i, j \in 1..Len(Head(in_flight).writes) :
                /\ Head(in_flight).writes[i].output_type = "loss_map"
                /\ Head(in_flight).writes[i].statistics = "mean"
                /\ Head(in_flight).writes[j].output_type = "loss_map"
                /\ Head(in_flight).writes[j].statistics = "quantile"

\* ------------------------------------------- aggregate losses of a realization
\* the (rupture id, loss) pairs of a table for the ruptures ids, in their order,
\* skipping the ids that are not keys of the table
RECURSIVE Restricted(_, _)
Restricted(table, ids) ==
    IF ids = <<>> THEN <<>>
    ELSE (IF Head(ids) \in DOMAIN table
          THEN << <<Head(ids), table[Head(ids)]>> >>
          ELSE <<>>)
         \o Restricted(table, Tail(ids))

\* C12: in post_process, for each (loss type, hazard output) pair, the
\* aggregate losses given to the curve builder are the event loss table
\* restricted to the rupture ids of the realization of the hazard output, one
\* value per rupture id that is a key of the table, in the order of the
\* rupture ids, none from a rupture of another realization; the EventLossData
\* rows of the pair are the same (rupture id, value) pairs.
C12_AggregateIsRestriction ==
    post.done =>
        \A lt \in DOMAIN event_loss_tables, i \in 1..Len(HazardOutputs) :
            LET h == HazardOutputs[i]
                want == Restricted(event_loss_tables[lt], RuptureIdsOf(h))
                rows == post.event_loss_data[<<lt, h>>]
            IN  /\ rows = want
                /\ \A k \in 1..Len(rows) : rows[k][1] \in Range(RuptureIdsOf(h))
                /\ want # <<>> =>
                       /\ <<lt, h>> \in DOMAIN post.aggregate_curves
                       /\ post.aggregate_curves[<<lt, h>>] =
                              [k \in 1..Len(want) |-> want[k][2]]

\* post_process ran on a table that holds both ruptures of the first
\* realization and the rupture of the second: two losses go to the curve of
\* the first, in the order of its rupture ids, and one to that of the second
C12_Witness ==
    /\ post.done
    /\ \E lt \in DOMAIN event_loss_tables :
          /\ DOMAIN event_loss_tables[lt] = {1, 2, 3}
          /\ Len(post.aggregate_curves[<<lt, 1>>]) = 2
          /\ Len(post.aggregate_curves[<<lt, 2>>]) = 1
          /\ post.event_loss_data[<<lt, 1>>][1][1] = 2
          /\ post.event_loss_data[<<lt, 1>>][2][1] = 1

\* ================================= task_completed called concurrently
\* complete task results: an entry for every loss type
CompleteResults == [LossTypes -> PartialTables]

InitConc ==
    /\ CalculatorStart
    /\ restored = <<>>
    /\ params = NoParams
    /\ calls \in [1..MaxCalls -> [result : CompleteResults, i : {1}, pc : {"read"},
                                  tmp : {EmptyCounter}]]
    /\ bins = <<>> /\ disaggregated = <<>>

\* the read of `self.event_loss_tables[loss_type] += task_loss_table`: the
\* defaultdict is read (a missing entry is created empty)
ReadTable(c) ==
    /\ calls[c].pc = "read"
    /\ LET lt == LossTypeOrder[calls[c].i]
       IN  /\ calls' = [calls EXCEPT ![c].tmp = TableOf(event_loss_tables, lt),
                                     ![c].pc = "write"]
           /\ event_loss_tables' =
                  [l \in (DOMAIN event_loss_tables) \cup {lt} |->
                      TableOf(event_loss_tables, l)]
    /\ UNCHANGED <<completed, failed, params, in_flight, ntasks, expected, post,
                   bins, disaggregated, restored>>

\* the add and the store of `+=`: the sum of the value read and the task's
\* table is stored back, and the loop moves to the next loss type
WriteTable(c) ==
    /\ calls[c].pc = "write"
    /\ LET lt == LossTypeOrder[calls[c].i]
       IN  /\ event_loss_tables' =
                  [event_loss_tables EXCEPT
                      ![lt] = CounterAdd(calls[c].tmp, calls[c].result[lt])]
           /\ calls' = [calls EXCEPT
                           ![c].i = @ + 1,
                           ![c].pc = IF calls[c].i = Len(LossTypeOrder)
                                     THEN "done" ELSE "read"]
    /\ UNCHANGED <<completed, failed, params, in_flight, ntasks, expected, post,
                   bins, disaggregated, restored>>

NextConc ==
    \/ \E c \in DOMAIN calls : ReadTable(c)
    \/ \E c \in DOMAIN calls : WriteTable(c)

SpecConc == InitConc /\ [][NextConc]_vars

RECURSIVE SumOver(_, _, _)
SumOver(cs, lt, r) ==
    IF cs = {} THEN 0
    ELSE LET c == CHOOSE x \in cs : TRUE
         IN  Get(calls[c].result[lt], r) + SumOver(cs \ {c}, lt, r)

\* C3: whatever the interleaving of the reads and writes of concurrent calls of
\* task_completed, once all of them returned the accumulated value at every
\* rupture key is the sum of the partial values for that key.
C3_NoLostUpdate ==
    (\A c \in DOMAIN calls : calls[c].pc = "done") =>
        \A lt \in LossTypes, r \in Ruptures :
            Get(TableOf(event_loss_tables, lt), r) = SumOver(DOMAIN calls, lt, r)

\* ===================================================== disaggregation
\* Magnitudes, distances, coordinates and bin widths are exact decimals, held
\* in tenths: 19 is 1.9.

\* "%d" of a whole number
Digits == <<"0", "1", "2", "3", "4", "5", "6", "7", "8", "9">>

RECURSIVE NatToStr(_)
NatToStr(n) ==
    IF n < 10 THEN Digits[n + 1] ELSE NatToStr(n \div 10) \o Digits[(n % 10) + 1]

IntToStr(n) == IF n < 0 THEN "-" \o NatToStr(-n) ELSE NatToStr(n)

\* "%d,%d" % (a, b)
FormatKey(a, b) == IntToStr(a) \o "," \o IntToStr(b)

\* floor(n / d) for d > 0
Floor(n, d) == n \div d

\* "%d" of the quotient n / d, d > 0: the fraction is cut off, towards zero
Truncate(n, d) == IF n >= 0 THEN n \div d ELSE -((-n) \div d)

\* the bin keys one iteration of disaggregate_site yields for a rupture of
\* geometry g seen from the site, under the bin widths w
BinKeys(g, w) ==
    LET mag == Floor(g.magnitude, w.mag_bin_width)
        \* numpy.floor(distance)[0] / distance_bin_width
        whole == Floor(g.distance, 10) * 10
        dist == Truncate(whole, w.distance_bin_width)
        lon == Truncate(g.longitude, w.coordinate_bin_width)
        lat == Truncate(g.latitude, w.coordinate_bin_width)
    IN  [magnitude_distance |-> FormatKey(mag, dist),
         coordinate |-> FormatKey(lon, lat)]

Geometries ==
    [magnitude : {45, 60, 67}, distance : {0, 9, 19, 25, 120},
     longitude : {-15, -5, 0, 5, 12}, latitude : {-5, 7}]

BinWidths ==
    [mag_bin_width : {5, 10}, distance_bin_width : {5, 10, 20},
     coordinate_bin_width : {1, 10}]

InitBins ==
    /\ CalculatorStart
    /\ restored = <<>>
    /\ params = NoParams
    /\ calls = <<>> /\ disaggregated = <<>>
    /\ bins \in [geometry : Geometries, widths : BinWidths, done : {FALSE},
                 keys : {[magnitude_distance |-> "", coordinate |-> ""]}]

DisaggregateSite ==
    /\ ~bins.done
    /\ bins' = [bins EXCEPT !.done = TRUE, !.keys = BinKeys(bins.geometry, bins.widths)]
    /\ UNCHANGED <<event_loss_tables, completed, failed, params, in_flight, ntasks,
                   expected, post, calls, disaggregated, restored>>

NextBins == DisaggregateSite

SpecBins == InitBins /\ [][NextBins]_vars

\* C7: the bin keys of a rupture are the floors of the quotients of its
\* magnitude, Joyner-Boore distance and closest-point coordinates by the bin
\* widths, each key being the two integers joined by a comma.
C7_KeysAreFloors ==
    bins.done =>
        LET g == bins.geometry
            w == bins.widths
        IN  /\ bins.keys.magnitude_distance =
                   FormatKey(Floor(g.magnitude, w.mag_bin_width),
                             Floor(g.distance, w.distance_bin_width))
            /\ bins.keys.coordinate =
                   FormatKey(Floor(g.longitude, w.coordinate_bin_width),
                             Floor(g.latitude, w.coordinate_bin_width))

\* ------------------------------------------------------------ disaggregate
\* what the database and the hazard library give for a rupture seen from a
\* site: magnitude, Joyner-Boore distance and the closest point, in tenths
GeometryOf(rupture_id, site) ==
    [magnitude |-> 50 + 5 * rupture_id, distance |-> 19 * rupture_id + 4 * site,
     longitude |-> 10 * site - 25, latitude |-> 7 * rupture_id - 12]

DisaggWidths == [mag_bin_width |-> 5, distance_bin_width |-> 10, coordinate_bin_width |-> 10]

Min(a, b) == IF a < b THEN a ELSE b

RECURSIVE SumSeq(_)
SumSeq(q) == IF q = <<>> THEN 0 ELSE Head(q) + SumSeq(Tail(q))

\* a mutation of disaggregate_site: the loss is normalised, each triple carrying
\* the whole part of loss / (total of the paired losses of the row)
disaggregate_site_share(site, loss_ratios, rupture_ids) ==
    LET n == Min(Len(loss_ratios), Len(rupture_ids))
        total == SumSeq(SubSeq(loss_ratios, 1, n))
    IN  [i \in 1..n |->
            [magnitude_distance |-> BinKeys(GeometryOf(rupture_ids[i], site),
                                            DisaggWidths).magnitude_distance,
             coordinate |-> BinKeys(GeometryOf(rupture_ids[i], site), DisaggWidths).coordinate,
             fraction |-> IF total = 0 THEN 0 ELSE loss_ratios[i] \div total]]

\* disaggregate_site: one triple per pair of zip(loss_ratios, rupture_ids)
disaggregate_site(site, loss_ratios, rupture_ids) ==
    [i \in 1..Min(Len(loss_ratios), Len(rupture_ids)) |->
        [magnitude_distance |-> BinKeys(GeometryOf(rupture_ids[i], site),
                                        DisaggWidths).magnitude_distance,
         coordinate |-> BinKeys(GeometryOf(rupture_ids[i], site), DisaggWidths).coordinate,
         fraction |-> loss_ratios[i]]]

\* itertools.repeat(asset, n)
Repeat(x, n) == [i \in 1..n |-> x]

\* the loop of disaggregate over zip(outputs.assets, outputs.loss_matrix) from
\* the i-th pair on; acc.chained tells that assets_disagg has become an
\* itertools.chain object
RECURSIVE DisaggregateFrom(_, _, _, _)
DisaggregateFrom(outputs, rupture_ids, sites_disagg, st) ==
    IF st.i > Min(Len(outputs.assets), Len(outputs.loss_matrix)) THEN st
    ELSE LET asset == outputs.assets[st.i]
             losses == outputs.loss_matrix[st.i]
         IN  DisaggregateFrom(outputs, rupture_ids, sites_disagg,
                 IF asset.site \in sites_disagg
                 THEN [i |-> st.i + 1,
                       disagg_matrix |-> st.disagg_matrix
                           \o disaggregate_site(asset.site, losses, rupture_ids),
                       assets_disagg |-> st.assets_disagg
                           \o Repeat(asset, Len(rupture_ids)),
                       chained |-> TRUE]
                 ELSE [st EXCEPT !.i = st.i + 1])

\* disaggregate: a chain object is always true, so the triples are unzipped
\* whenever an asset qualified, and unpacking zip(*[]) raises ValueError
disaggregate(outputs, rupture_ids, sites_disagg) ==
    LET st == DisaggregateFrom(outputs, rupture_ids, sites_disagg,
                  [i |-> 1, disagg_matrix |-> <<>>, assets_disagg |-> <<>>,
                   chained |-> FALSE])
        m == st.disagg_matrix
        none == [raised |-> FALSE, assets_disagg |-> <<>>, magnitude_distance |-> <<>>,
                 coordinate |-> <<>>, fractions |-> <<>>]
    IN  IF st.chained
        THEN IF m = <<>>
             THEN [none EXCEPT !.raised = TRUE]
             ELSE [raised |-> FALSE,
                   assets_disagg |-> st.assets_disagg,
                   magnitude_distance |-> [k \in 1..Len(m) |-> m[k].magnitude_distance],
                   coordinate |-> [k \in 1..Len(m) |-> m[k].coordinate],
                   fractions |-> [k \in 1..Len(m) |-> m[k].fraction]]
        ELSE none

\* ------------------------------------------- the inputs of disaggregate
Sites == {1, 2}
LossRatioSamples == {0, MaxLoss}
AllRuptureIds == <<2, 1, 3>>

SeqsOfLen(S, n) == [1..n -> S]

\* the outputs of a unit: n assets and a loss matrix of n rows of m columns
DisaggOutputs ==
    UNION { UNION { [assets : {[i \in 1..n |-> [id |-> i, site |-> ss[i]]] :
                                  ss \in SeqsOfLen(Sites, n)},
                     loss_matrix : SeqsOfLen(SeqsOfLen(LossRatioSamples, m), n)]
                    : m \in 0..MaxCols }
            : n \in 0..MaxAssets }

DisaggInputs ==
    [outputs : DisaggOutputs,
     rupture_ids : {SubSeq(AllRuptureIds, 1, n) :
                       n \in 0..Min(MaxCols, Len(AllRuptureIds))},
     sites_disagg : {{1}, {1, 2}}]

InitDisagg ==
    /\ CalculatorStart
    /\ restored = <<>>
    /\ params = NoParams
    /\ calls = <<>> /\ bins = <<>>
    /\ disaggregated \in [input : DisaggInputs, done : {FALSE}, out : {<<>>}]

Disaggregate ==
    /\ ~disaggregated.done
    /\ disaggregated' =
           [disaggregated EXCEPT
               !.done = TRUE,
               !.out = disaggregate(disaggregated.input.outputs,
                                    disaggregated.input.rupture_ids,
                                    disaggregated.input.sites_disagg)]
    /\ UNCHANGED <<event_loss_tables, completed, failed, params, in_flight, ntasks,
                   expected, post, calls, bins, restored>>

NextDisagg == Disaggregate

SpecDisagg == InitDisagg /\ [][NextDisagg]_vars

\* the (asset, column) pairs of a call, in the order of the triples: for every
\* asset whose site is in sites_disagg, the columns paired with a rupture
RECURSIVE PairsFrom(_, _)
PairsFrom(input, a) ==
    IF a > Min(Len(input.outputs.assets), Len(input.outputs.loss_matrix)) THEN <<>>
    ELSE (IF input.outputs.assets[a].site \in input.sites_disagg
          THEN [c \in 1..Min(Len(input.outputs.loss_matrix[a]), Len(input.rupture_ids))
                   |-> <<a, c>>]
          ELSE <<>>)
         \o PairsFrom(input, a + 1)

Pairs(input) == PairsFrom(input, 1)

\* C8: the four outputs of disaggregate are parallel arrays: assets_disagg
\* holds each qualifying asset once per rupture it was paired with, in the
\* order of the triples, for every input.
C8_ParallelArrays ==
    disaggregated.done =>
        LET out == disaggregated.out
            prs == Pairs(disaggregated.input)
        IN  /\ ~out.raised
            /\ Len(out.assets_disagg) = Len(out.fractions)
            /\ Len(out.magnitude_distance) = Len(out.fractions)
            /\ Len(out.coordinate) = Len(out.fractions)
            /\ out.assets_disagg =
                   [k \in 1..Len(prs) |-> disaggregated.input.outputs.assets[prs[k][1]]]

\* the loss of the k-th pair of a call
LossOfPair(input, pr) == input.outputs.loss_matrix[pr[1]][pr[2]]

\* the total loss of asset a over the ruptures it was paired with
TotalOf(input, a) ==
    SumSeq(SubSeq(input.outputs.loss_matrix[a], 1,
                  Min(Len(input.outputs.loss_matrix[a]), Len(input.rupture_ids))))

\* C9 as claimed: every fraction is the rupture's share of the asset's total
\* loss (fraction * total = loss), so the fractions of an asset whose total is
\* not zero sum to 1.
C9_FractionIsShare ==
    (disaggregated.done /\ ~disaggregated.out.raised) =>
        LET input == disaggregated.input
            out == disaggregated.out
            prs == Pairs(input)
        IN  \A k \in 1..Len(out.fractions) :
                /\ k <= Len(prs)
                /\ out.fractions[k] * TotalOf(input, prs[k][1]) = LossOfPair(input, prs[k])
                /\ TotalOf(input, prs[k][1]) # 0 =>
                       SumSeq([j \in 1..Len(SelectSeq(prs, LAMBDA q : q[1] = prs[k][1])) |->
                                  out.fractions[
                                      (CHOOSE f \in 1..Len(prs) : prs[f] = <<prs[k][1], j>>)]])
                           = 1

\* C9 as amended: every fraction disaggregate returns is the asset's entry of
\* the loss matrix for the rupture of the triple, unchanged: the k-th fraction
\* is the loss of the k-th (asset, rupture) pair.
C9_FractionIsLoss ==
    (disaggregated.done /\ ~disaggregated.out.raised) =>
        LET input == disaggregated.input
            out == disaggregated.out
            prs == Pairs(input)
        IN  /\ Len(out.fractions) = Len(prs)
            /\ \A k \in 1..Len(prs) : out.fractions[k] = LossOfPair(input, prs[k])

\* two assets qualified, and the fractions returned for the first one are its
\* two losses, which do not sum to one unit
C9_Witness ==
    /\ disaggregated.done /\ ~disaggregated.out.raised
    /\ Len(disaggregated.input.outputs.assets) = 2
    /\ Len(disaggregated.input.rupture_ids) = 2
    /\ Len(disaggregated.out.fractions) = 4
    /\ disaggregated.out.fractions[1] = MaxLoss
    /\ disaggregated.out.fractions[2] = MaxLoss
    /\ disaggregated.out.fractions[3] = 0

\* ============================================================= safe_restore
\* restore blocks of 1,000 lines each
BLOCKSIZE == 1000

\* a file of n lines; the id in the first field of its i-th line cycles through
\* 1..period, so a period of 1 repeats one id and a long period repeats none
LineId(file, i) == ((i - 1) % file.period) + 1

\* short files and files of one block and of one block and a line
Files == [n : (0..MaxLines) \cup {BLOCKSIZE, BLOCKSIZE + 1}, period : {1, 3, 2 * BLOCKSIZE}]

\* the ids the table holds before the call
TableIds == {{}, {1}, {2, 3}}

\* the blocksize argument: small ones and the default
Blocksizes == {1, 2, BLOCKSIZE}

\* safe_restore up to the loop: ids read from the table, empty buffer, nothing
\* imported; lines are named by their position in the file
InitRestore ==
    /\ CalculatorStart
    /\ params = NoParams
    /\ calls = <<>> /\ bins = <<>> /\ disaggregated = <<>>
    /\ restored \in [file : Files, ids : TableIds, blocksize : Blocksizes,
                     i : {0}, s : {<<>>}, copied : {<<>>}, imported : {0},
                     pc : {"loop"}, returned : {0}]

\* one iteration of the loop: the line is buffered when its id is not taken,
\* and the buffer is copied and renewed when i is a multiple of BLOCKSIZE
ReadLine ==
    /\ restored.pc = "loop"
    /\ restored.i < restored.file.n
    /\ LET i == restored.i + 1
           fresh == LineId(restored.file, i) \notin restored.ids
           s == IF fresh THEN Append(restored.s, i) ELSE restored.s
           imported == IF fresh THEN restored.imported + 1 ELSE restored.imported
       IN  restored' =
               IF i % BLOCKSIZE = 0
               THEN [restored EXCEPT !.i = i, !.imported = imported, !.s = <<>>,
                                     !.copied = Append(restored.copied, s)]
               ELSE [restored EXCEPT !.i = i, !.imported = imported, !.s = s]
    /\ UNCHANGED <<event_loss_tables, completed, failed, params, in_flight, ntasks,
                   expected, post, calls, bins, disaggregated>>

\* the end of the file: the finally clause copies what the buffer holds and
\* the count of imported lines is returned
Finally ==
    /\ restored.pc = "loop"
    /\ restored.i = restored.file.n
    /\ restored' = [restored EXCEPT !.pc = "done", !.s = <<>>,
                                    !.copied = Append(restored.copied, restored.s),
                                    !.returned = restored.imported]
    /\ UNCHANGED <<event_loss_tables, completed, failed, params, in_flight, ntasks,
                   expected, post, calls, bins, disaggregated>>

NextRestore ==
    \/ ReadLine
    \/ Finally

SpecRestore == InitRestore /\ [][NextRestore]_vars

\* the lines of a file whose id is not among ids, in file order
NewLines(file, ids) ==
    SelectSeq([i \in 1..file.n |-> i], LAMBDA i : LineId(file, i) \notin ids)

\* C13: safe_restore copies exactly the lines of the file whose id is not
\* among the ids the table held before the call, each once and in file order,
\* never holds more than blocksize lines in its buffer between two copies, and
\* returns the number of lines copied.
C13_SafeRestore ==
    restored # <<>> =>
        /\ Len(restored.s) <= restored.blocksize
        /\ restored.pc = "done" =>
               /\ Concat(restored.copied) = NewLines(restored.file, restored.ids)
               /\ restored.returned = Len(NewLines(restored.file, restored.ids))

====
